---- MODULE Spec2Model ----
(***************************************************************************)
(* CRPRenderManager (xbmc/cores/RetroPlayer/rendering/RPRenderManager.cpp) *)
(* as a state machine of two threads: the producer (Configure, AddFrame,   *)
(* Flush, SetSpeed) and the presenter (FrameMove, RenderWindow /           *)
(* RenderControl, which run GetRenderer and RenderInternal).  A step of a  *)
(* thread is a stretch of its code between two points where the other     *)
(* thread can make a difference: an unlocked read of m_bFlush or m_state,  *)
(* a lock acquisition, and the code run under a lock up to the point where *)
(* the lock is released or left (CSingleExit).  The two threads interleave *)
(* freely.  Plain reads and writes of m_bFlush, m_state, m_format and the  *)
(* dimensions are taken as atomic machine accesses.  AddFrame's checks and *)
(* its copy loop are one step: only the producer itself can make the       *)
(* checks fail once they have passed.                                      *)
(***************************************************************************)
EXTENDS Integers, Sequences, FiniteSets, TLC

\* ------------------------------------------------------------------ bounds
MaxBufs == 2        \* buffers the first pool can have handed out at one time
MaxSize == 2        \* largest frame size, in bytes
MaxDim == 2         \* largest nominal width
NumFrames == 1      \* distinct byte patterns a frame may carry
MaxRenderers == 2   \* renderer instances one pool can have at one time

Pools == {1, 2}                 \* GetBufferPools(), in registration order
LastPool == Cardinality(Pools)
FrameIds == 1 .. NumFrames
Sizes == 1 .. MaxSize
Formats == {"RGB32"}               \* the formats Configure is called with
Widths == 1 .. MaxDim
Heights == {1}
Speeds == {0, 1}                \* 0 is paused (0.0), 1 is normal speed (1.0)
ScalingMethods == {"NEAREST", "LINEAR", "CUBIC", "AUTO"}
ViewModes == {"NORMAL"}
Rotations == {0}

None == 0                       \* nullptr, for buffers, renderers and frames

\* ---------------------------------------------- collaborators (interfaces)
\* The pool a buffer instance belongs to (IRenderBuffer::GetPool): the first pool
\* owns MaxBufs buffers, the second pool a single one.
BufPool(b) == IF b <= MaxBufs THEN 1 ELSE 2
BufferIds == 1 .. (MaxBufs + 1)

\* IRenderBuffer::GetMemory() and sws_getCachedContext: the first pool keeps its
\* buffers in system memory, the second maps and converts them, which can fail.
CopyCanFail(p) == p # 1

\* IRenderBuffer::GetFormat of the buffers a pool hands out.
PoolFormat(p) == IF p = 1 THEN "RGB32" ELSE "RGB565"

\* GetFrameSize() / GetHeight() of a pool's buffer for rows of the given length:
\* the first pool aligns its rows to two bytes, the second packs them.
TargetStride(p, sourceStride) ==
  IF p = 1 THEN sourceStride + (sourceStride % 2) ELSE sourceStride

\* IRenderBufferPool::IsCompatible(settings)
PoolIsCompatible(p, settings) ==
  IF p = 1 THEN settings.scalingMethod = "NEAREST"
           ELSE settings.scalingMethod \in {"NEAREST", "LINEAR"}

\* CRPBaseRenderer::IsCompatible(settings): a renderer accepts what its pool accepts.
RendererIsCompatible(r, settings) == PoolIsCompatible(r.pool, settings)

\* CRPBaseRenderer::Configure(format, width, height): configures the pool for the format.
RendererConfigure(p, format) == format \in {"RGB32", "RGB565"}

\* CRPProcessInfo::HasScalingMethod / GetDefaultScalingMethod
HasScalingMethod(m) == m \in {"NEAREST", "LINEAR", "AUTO"}
DefaultScalingMethod == "NEAREST"

\* CRenderTranslator::TranslateWidthToBytes(width, format)
TranslateWidthToBytes(width, format) ==
  IF format = "RGB32" THEN 4 * width ELSE IF format = "RGB565" THEN 2 * width ELSE 0

\* A buffer in a pool's free list: no reference held, not uploaded, content undefined.
Stale == [bytes |-> <<>>, layout |-> "stale"]
FreeBuffer == [refs |-> 0, loaded |-> FALSE, uploads |-> 0, content |-> Stale]

\* IRenderBuffer::Acquire
Acquire(bs, b) == [bs EXCEPT ![b].refs = @ + 1]

\* IRenderBuffer::Release: the last reference returns the buffer to its pool.
Release(bs, b) ==
  IF bs[b].refs <= 1 THEN [bs EXCEPT ![b] = FreeBuffer]
                     ELSE [bs EXCEPT ![b].refs = @ - 1]

\* The release loop as it would be if it released nothing.
ReleaseNothing(bs, list) == bs

\* for (auto renderBuffer : m_renderBuffers) renderBuffer->Release();
RECURSIVE ReleaseAll(_, _)
ReleaseAll(bs, list) ==
  IF list = <<>> THEN bs ELSE ReleaseAll(Release(bs, Head(list)), Tail(list))

\* IRenderBufferPool::GetBuffer(size): a free buffer of the pool, or none.
FreeOf(bs, p) == {b \in BufferIds : BufPool(b) = p /\ bs[b].refs = 0}
GetBuffer(bs, p) ==
  {None} \cup (IF FreeOf(bs, p) = {} THEN {}
               ELSE {CHOOSE b \in FreeOf(bs, p) : \A c \in FreeOf(bs, p) : b <= c})
Handout(bs, b) == [bs EXCEPT ![b] = [FreeBuffer EXCEPT !.refs = 1]]

\* The bytes of frame pattern f delivered with the given size.
Data(f, size) == [i \in 1 .. size |-> f]

\* std::vector::resize(n): keeps the elements it has, value-initialises the rest.
Resize(vec, n) == [i \in 1 .. n |-> IF i <= Len(vec) THEN vec[i] ELSE 0]

\* std::memcpy(vec.data(), data, size), as seen through the vector: the bytes that
\* fall inside the vector.  With size > vec.size() the copy runs past the end.
Memcpy(vec, data, size) == [i \in 1 .. Len(vec) |-> IF i <= size THEN data[i] ELSE vec[i]]
Overruns(vec, size) == size > Len(vec)

\* ------------------------------------------------------------ pixel copy
\* CopyFrame: what the target buffer can hold afterwards.  GetMemory() may return
\* nullptr and sws_getCachedContext may fail; the buffer then keeps what it had.
CopyFrame(p, format, data, size, width, height) ==
  LET sourceStride == size \div height
      targetStride == TargetStride(p, sourceStride)
      widthBytes == TranslateWidthToBytes(width, format)
  IN  (IF CopyCanFail(p) THEN {Stale} ELSE {}) \cup
      (IF format = PoolFormat(p)
         THEN IF sourceStride = targetStride
                THEN {[bytes |-> data, layout |-> "bulk"]}
                ELSE IF widthBytes > 0 THEN {[bytes |-> data, layout |-> "rows"]}
                                       ELSE {Stale}
         ELSE {[bytes |-> data, layout |-> "scaled"]})

\* GetEffectiveSettings: overlay the requested view mode and rotation on the base
\* settings, then sanitise the scaling method.
GetEffectiveSettings(base, settings) ==
  LET overlaid == IF settings.isNull THEN base
                  ELSE [base EXCEPT !.viewMode = IF settings.hasViewMode
                                                   THEN settings.viewMode ELSE @,
                                    !.rotation = IF settings.hasRotation
                                                   THEN settings.rotation ELSE @]
  IN  IF HasScalingMethod(overlaid.scalingMethod) THEN overlaid
      ELSE [overlaid EXCEPT !.scalingMethod = DefaultScalingMethod]

VideoSettings == [scalingMethod : ScalingMethods, viewMode : ViewModes, rotation : Rotations]
\* The const IGUIRenderSettings* of RenderWindow (nullptr) and of RenderControl.
GUIRenderSettings ==
  [isNull : BOOLEAN, hasViewMode : BOOLEAN, viewMode : ViewModes,
   hasRotation : BOOLEAN, rotation : Rotations]
\* GetEffectiveSettings(renderSettings) over the game settings the GUI can hold and
\* the render settings RenderWindow and RenderControl pass.
EffectiveSettings ==
  {GetEffectiveSettings(base, settings) : base \in VideoSettings, settings \in GUIRenderSettings}
\* An empty std::shared_ptr<CRPBaseRenderer>.
NoRenderer ==
  [id |-> None, pool |-> 0, format |-> "NONE", width |-> 0, height |-> 0,
   scalingMethod |-> DefaultScalingMethod, viewMode |-> "NORMAL", rotation |-> 0]

\* ------------------------------------------------------------------ state
VARIABLES
  m_state, m_bFlush, m_format, m_width, m_height, m_maxWidth, m_maxHeight,
  m_speed, m_renderBuffers, m_cachedFrame, m_bHasCachedFrame, m_renderers,
  m_stateMutex, m_bufferMutex,
  graphicsMutex,    \* whether the presenter holds m_renderContext.GraphicsMutex()
  buffers,          \* every pool buffer: reference count, loaded flag, content
  pausedFrame,      \* history: the frame AddFrame last took in while paused
  fullscreenPosts,  \* TMSG_SWITCHTOFULLSCREEN messages posted since Initialize
  producer,         \* the producer thread: position and locals
  presenter         \* the presentation thread: position and locals

config == <<m_format, m_width, m_height, m_maxWidth, m_maxHeight>>
frames == <<m_renderBuffers, m_cachedFrame, m_bHasCachedFrame, buffers, pausedFrame>>
locks == <<m_stateMutex, m_bufferMutex, graphicsMutex>>
vars == <<m_state, m_bFlush, config, m_speed, frames, m_renderers, locks,
          fullscreenPosts, producer, presenter>>

\* The history of the frames taken in while paused.  It is kept only in behaviours
\* that start with recording on; the program neither reads nor writes it.
NotRecording ==
  [recording |-> FALSE, bytes |-> <<>>, width |-> 0, height |-> 0, superseded |-> FALSE]
\* Recording, and no frame has been taken in while paused since the last flush.
NoPausedFrame == [NotRecording EXCEPT !.recording = TRUE]
\* AddFrame took in a frame while paused: its bytes and the dimensions it came with.
StorePaused(h, bytes, width, height) ==
  IF h.recording
    THEN [h EXCEPT !.bytes = bytes, !.width = width, !.height = height,
                   !.superseded = FALSE]
    ELSE h
\* AddFrame took in a frame at another speed while a cached frame was flagged.
Supersede(h, bHasCachedFrame) ==
  IF h.recording /\ bHasCachedFrame THEN [h EXCEPT !.superseded = TRUE] ELSE h
\* A flush has cleared the cached frame.
Forget(h) == [NotRecording EXCEPT !.recording = h.recording]

\* What a pool answered in the loop of AddFrame.
NotPolled == [p \in Pools |-> "none"]

ProducerIdle ==
  [pc |-> "idle", fromAddFrame |-> FALSE, data |-> None, size |-> 0, width |-> 0,
   height |-> 0, renderBuffers |-> <<>>, polled |-> NotPolled, cachedFrame |-> <<>>]

PresenterIdle ==
  [pc |-> "idle", renderer |-> None,
   created |-> NoRenderer, crbPool |-> 0, crbReturn |-> "idle", cachedFrame |-> <<>>,
   crbBuffer |-> None, retry |-> FALSE, renderBuffer |-> None, bUploaded |-> FALSE]

\* The constructor and the member initialisers: speed 1.0, nothing configured.
Constructed ==
  /\ m_state = "UNCONFIGURED"
  /\ m_bFlush = FALSE
  /\ m_format = "NONE"
  /\ m_width = 0
  /\ m_height = 0
  /\ m_maxWidth = 0
  /\ m_maxHeight = 0
  /\ m_speed = 1
  /\ m_renderBuffers = <<>>
  /\ m_cachedFrame = <<>>
  /\ m_bHasCachedFrame = FALSE
  /\ m_renderers = {}
  /\ m_stateMutex = "none"
  /\ m_bufferMutex = "none"
  /\ graphicsMutex = TRUE
  /\ buffers = [b \in BufferIds |-> FreeBuffer]
  /\ fullscreenPosts = 0
  /\ producer = ProducerIdle
  /\ presenter = PresenterIdle

Init == Constructed /\ pausedFrame = NotRecording

\* ------------------------------------------------------ producer: Configure
\* Lines 83-96: Configure is entered from the API and writes the configuration,
\* without a lock.
ConfigureCall ==
  /\ producer.pc = "idle"
  /\ \E format \in Formats, nominalWidth \in Widths, nominalHeight \in Heights :
       /\ m_format' = format
       /\ m_width' = nominalWidth
       /\ m_height' = nominalHeight
  /\ m_maxWidth' = MaxDim
  /\ m_maxHeight' = MaxDim
  /\ producer' = [ProducerIdle EXCEPT !.pc = "cfg_lock"]
  /\ UNCHANGED <<m_state, m_bFlush, m_speed, frames, m_renderers, locks, fullscreenPosts,
                 presenter>>

\* Configure as it would be if a later call left out Flush().
ConfigureLockWithoutFlush ==
  /\ producer.pc = "cfg_lock"
  /\ m_stateMutex = "none"
  /\ IF m_state = "UNCONFIGURED"
       THEN /\ m_state' = "CONFIGURING"
            /\ producer' = ProducerIdle
            /\ UNCHANGED m_stateMutex
       ELSE /\ m_stateMutex' = "producer"
            /\ producer' = [producer EXCEPT !.pc = "cfg_reconf"]
            /\ UNCHANGED m_state
  /\ UNCHANGED <<m_bFlush, config, m_speed, frames, m_renderers, m_bufferMutex,
                 graphicsMutex, fullscreenPosts, presenter>>

\* Lines 98-104: under the state lock, the first Configure arms CONFIGURING and
\* returns; any later one calls Flush().
ConfigureLock ==
  /\ producer.pc = "cfg_lock"
  /\ m_stateMutex = "none"
  /\ IF m_state = "UNCONFIGURED"
       THEN /\ m_state' = "CONFIGURING"
            /\ producer' = ProducerIdle
            /\ UNCHANGED <<m_bFlush, m_stateMutex>>
       ELSE /\ m_bFlush' = TRUE
            /\ m_stateMutex' = "producer"
            /\ producer' = [producer EXCEPT !.pc = "cfg_reconf"]
            /\ UNCHANGED m_state
  /\ UNCHANGED <<config, m_speed, frames, m_renderers, m_bufferMutex, graphicsMutex,
                 fullscreenPosts, presenter>>

\* Lines 105-108: m_state = RECONFIGURING, the lock is released, Configure returns.
ConfigureReconfiguring ==
  /\ producer.pc = "cfg_reconf"
  /\ m_state' = "RECONFIGURING"
  /\ m_stateMutex' = "none"
  /\ producer' = ProducerIdle
  /\ UNCHANGED <<m_bFlush, config, m_speed, frames, m_renderers, m_bufferMutex,
                 graphicsMutex, fullscreenPosts, presenter>>

\* --------------------------------------------------- producer: Flush, SetSpeed
Flush ==
  /\ producer.pc = "idle"
  /\ m_bFlush' = TRUE
  /\ UNCHANGED <<m_state, config, m_speed, frames, m_renderers, locks, fullscreenPosts,
                 producer, presenter>>

SetSpeed ==
  /\ producer.pc = "idle"
  /\ \E speed \in Speeds : m_speed' = speed
  /\ UNCHANGED <<m_state, m_bFlush, config, frames, m_renderers, locks, fullscreenPosts,
                 producer, presenter>>

\* ------------------------------------------------------ producer: AddFrame
\* IRenderBufferPool::HasVisibleRenderer(): the answers a pool can give.  Only a pool
\* that a registered renderer is bound to can report a visible one.
HasVisibleRenderer(p) ==
  IF \E r \in m_renderers : r.pool = p THEN BOOLEAN ELSE {FALSE}

\* Lines 129-142: a pool without a visible renderer is passed over; a pool that has
\* no buffer to give is logged and passed over; the frame is copied into the others.
\* The result is the buffer table and the local renderBuffers list after the loop,
\* with what each pool answered: "invisible", "exhausted" or "supplied".
RECURSIVE CopyToPools(_, _, _, _, _, _, _, _, _)
CopyToPools(p, bs, list, polled, format, data, size, width, height) ==
  IF p > LastPool THEN {[buffers |-> bs, renderBuffers |-> list, polled |-> polled]}
  ELSE UNION {
    IF ~hasVisibleRenderer
      THEN CopyToPools(p + 1, bs, list, [polled EXCEPT ![p] = "invisible"],
                       format, data, size, width, height)
      ELSE UNION {
        IF renderBuffer = None
          THEN CopyToPools(p + 1, bs, list, [polled EXCEPT ![p] = "exhausted"],
                           format, data, size, width, height)
          ELSE UNION {
            CopyToPools(p + 1,
                        [Handout(bs, renderBuffer) EXCEPT ![renderBuffer].content = content],
                        Append(list, renderBuffer), [polled EXCEPT ![p] = "supplied"],
                        format, data, size, width, height)
            : content \in CopyFrame(p, format, data, size, width, height)}
        : renderBuffer \in GetBuffer(bs, p)}
    : hasVisibleRenderer \in HasVisibleRenderer(p)}

\* Lines 113-142: the guard, the parameter check and the dimension check; then the
\* copy into the pools' buffers.  A frame of other dimensions runs
\* Configure(m_format, width, height, m_maxWidth, m_maxHeight) and is dropped.
AddFrameCall ==
  /\ producer.pc = "idle"
  /\ IF m_bFlush \/ m_state # "CONFIGURED"
       THEN UNCHANGED <<producer, buffers, m_width, m_height>>
     ELSE \E data \in {None} \cup FrameIds, size \in {0} \cup Sizes,
             width \in {0} \cup Widths, height \in {0} \cup Heights :
       IF data = None \/ size = 0 \/ width = 0 \/ height = 0
         THEN UNCHANGED <<producer, buffers, m_width, m_height>>
       ELSE IF width # m_width \/ height # m_height
         THEN /\ m_width' = width
              /\ m_height' = height
              /\ producer' = [ProducerIdle EXCEPT !.pc = "cfg_lock", !.fromAddFrame = TRUE,
                                                  !.width = width, !.height = height]
              /\ UNCHANGED buffers
       ELSE \E copied \in CopyToPools(1, buffers, <<>>, NotPolled, m_format,
                                      Data(data, size), size, width, height) :
              /\ buffers' = copied.buffers
              /\ producer' = [ProducerIdle EXCEPT !.pc = "add_swap", !.data = data,
                                                  !.size = size, !.width = width,
                                                  !.height = height,
                                                  !.renderBuffers = copied.renderBuffers,
                                                  !.polled = copied.polled]
              /\ UNCHANGED <<m_width, m_height>>
  /\ UNCHANGED <<m_state, m_bFlush, m_format, m_maxWidth, m_maxHeight, m_speed,
                 m_renderBuffers, m_cachedFrame, m_bHasCachedFrame, pausedFrame,
                 m_renderers, locks, fullscreenPosts, presenter>>

\* Lines 145-166: under the buffer lock the old buffers are released and the new
\* list is stored.  When paused, the cached frame is moved out (and sized on first
\* use); if it is not empty the lock is left (CSingleExit) for the memcpy,
\* otherwise the lock is released and AddFrame returns.
AddFrameSwap ==
  /\ producer.pc = "add_swap"
  /\ m_bufferMutex = "none"
  /\ buffers' = ReleaseAll(buffers, m_renderBuffers)
  /\ m_renderBuffers' = producer.renderBuffers
  /\ IF m_speed = 0
       THEN LET cachedFrame == IF ~m_bHasCachedFrame THEN Resize(m_cachedFrame, producer.size)
                                                     ELSE m_cachedFrame
            IN /\ m_cachedFrame' = <<>>
               /\ m_bHasCachedFrame' = TRUE
               /\ pausedFrame' = StorePaused(pausedFrame,
                                              Data(producer.data, producer.size),
                                              producer.width, producer.height)
               /\ producer' = IF cachedFrame # <<>>
                                THEN [producer EXCEPT !.pc = "add_memcpy",
                                                      !.cachedFrame = cachedFrame]
                                ELSE ProducerIdle
       ELSE /\ producer' = ProducerIdle
            /\ pausedFrame' = Supersede(pausedFrame, m_bHasCachedFrame)
            /\ UNCHANGED <<m_cachedFrame, m_bHasCachedFrame>>
  /\ UNCHANGED <<m_state, m_bFlush, config, m_speed, m_renderers, locks, fullscreenPosts,
                 presenter>>

\* Lines 167-168: memcpy(cachedFrame.data(), data, size) outside the lock, then the
\* lock is taken again.  A copy longer than the vector is a heap overrun: the
\* process either dies, both threads with it, or goes on with the bytes that fit.
AddFrameMemcpy ==
  /\ producer.pc = "add_memcpy"
  /\ \/ /\ m_bufferMutex = "none"
        /\ m_bufferMutex' = "producer"
        /\ producer' = [producer EXCEPT
             !.pc = "add_store",
             !.cachedFrame = Memcpy(@, Data(producer.data, producer.size), producer.size)]
        /\ UNCHANGED presenter
     \/ /\ Overruns(producer.cachedFrame, producer.size)
        /\ producer' = [producer EXCEPT !.pc = "crashed"]
        /\ presenter' = [presenter EXCEPT !.pc = "crashed"]
        /\ UNCHANGED m_bufferMutex
  /\ UNCHANGED <<m_state, m_bFlush, config, m_speed, frames, m_renderers, m_stateMutex,
                 graphicsMutex, fullscreenPosts>>

\* Lines 169-172: m_cachedFrame = std::move(cachedFrame); the lock is released.
AddFrameStore ==
  /\ producer.pc = "add_store"
  /\ m_cachedFrame' = producer.cachedFrame
  /\ m_bufferMutex' = "none"
  /\ producer' = ProducerIdle
  /\ UNCHANGED <<m_state, m_bFlush, config, m_speed, m_renderBuffers, m_bHasCachedFrame,
                 buffers, pausedFrame, m_renderers, m_stateMutex, graphicsMutex,
                 fullscreenPosts, presenter>>

\* ------------------------------------------------ presenter: FrameMove
\* Lines 182, 221: FrameMove calls CheckFlush, which reads m_bFlush.
FrameMoveCall ==
  /\ presenter.pc = "idle"
  /\ presenter' = [presenter EXCEPT !.pc = IF m_bFlush THEN "cf_lock" ELSE "fm_lock"]
  /\ UNCHANGED <<m_state, m_bFlush, config, m_speed, frames, m_renderers, locks,
                 fullscreenPosts, producer>>

\* Line 224: CSingleLock lock(m_bufferMutex)
CheckFlushLock ==
  /\ presenter.pc = "cf_lock"
  /\ m_bufferMutex = "none"
  /\ m_bufferMutex' = "presenter"
  /\ presenter' = [presenter EXCEPT !.pc = "cf_clear"]
  /\ UNCHANGED <<m_state, m_bFlush, config, m_speed, frames, m_renderers, m_stateMutex,
                 graphicsMutex, fullscreenPosts, producer>>

\* CheckFlush as it would be if the buffer lock were held to the end of FrameMove
\* instead of being scoped to lines 223-232.
CheckFlushClearKeepsLock ==
  /\ presenter.pc = "cf_clear"
  /\ buffers' = ReleaseAll(buffers, m_renderBuffers)
  /\ m_renderBuffers' = <<>>
  /\ m_cachedFrame' = <<>>
  /\ m_bHasCachedFrame' = FALSE
  /\ pausedFrame' = Forget(pausedFrame)
  /\ presenter' = [presenter EXCEPT !.pc = "cf_flag"]
  /\ UNCHANGED <<m_state, m_bFlush, config, m_speed, m_renderers, locks,
                 fullscreenPosts, producer>>

\* Lines 225-232: every buffer of the set is released, the set and the cached
\* frame are cleared, and the buffer lock is released.
CheckFlushClear ==
  /\ presenter.pc = "cf_clear"
  /\ buffers' = ReleaseAll(buffers, m_renderBuffers)
  /\ m_renderBuffers' = <<>>
  /\ m_cachedFrame' = <<>>
  /\ m_bHasCachedFrame' = FALSE
  /\ pausedFrame' = Forget(pausedFrame)
  /\ m_bufferMutex' = "none"
  /\ presenter' = [presenter EXCEPT !.pc = "cf_flag"]
  /\ UNCHANGED <<m_state, m_bFlush, config, m_speed, m_renderers, m_stateMutex,
                 graphicsMutex, fullscreenPosts, producer>>

\* CheckFlush as it would be if it returned without m_bFlush = false.
CheckFlushDoneWithoutClear ==
  /\ presenter.pc = "cf_flag"
  /\ presenter' = [presenter EXCEPT !.pc = "fm_lock"]
  /\ UNCHANGED <<m_state, m_bFlush, config, m_speed, frames, m_renderers, locks,
                 fullscreenPosts, producer>>

\* Lines 234-240: the renderers and the pools are flushed, then m_bFlush = false.
CheckFlushDone ==
  /\ presenter.pc = "cf_flag"
  /\ m_bFlush' = FALSE
  /\ presenter' = [presenter EXCEPT !.pc = "fm_lock"]
  /\ UNCHANGED <<m_state, config, m_speed, frames, m_renderers, locks, fullscreenPosts,
                 producer>>

\* Line 187: CSingleLock lock(m_stateMutex)
FrameMoveLock ==
  /\ presenter.pc = "fm_lock"
  /\ m_stateMutex = "none"
  /\ m_stateMutex' = "presenter"
  /\ presenter' = [presenter EXCEPT !.pc = "fm_state"]
  /\ UNCHANGED <<m_state, m_bFlush, config, m_speed, frames, m_renderers, m_bufferMutex,
                 graphicsMutex, fullscreenPosts, producer>>

\* Lines 189-216: CONFIGURING is committed with the switch-to-fullscreen message,
\* RECONFIGURING with a Configure of every renderer; the lock is released and the
\* renderers' FrameMove runs when configured.
FrameMoveState ==
  /\ presenter.pc = "fm_state"
  /\ IF m_state = "CONFIGURING"
       THEN /\ fullscreenPosts' = fullscreenPosts + 1
            /\ m_state' = "CONFIGURED"
            /\ UNCHANGED m_renderers
       ELSE IF m_state = "RECONFIGURING"
         THEN /\ m_renderers' = {[r EXCEPT !.format = m_format, !.width = m_width,
                                           !.height = m_height] : r \in m_renderers}
              /\ m_state' = "CONFIGURED"
              /\ UNCHANGED fullscreenPosts
         ELSE UNCHANGED <<m_state, m_renderers, fullscreenPosts>>
  /\ m_stateMutex' = "none"
  /\ presenter' = PresenterIdle
  /\ UNCHANGED <<m_bFlush, config, m_speed, frames, m_bufferMutex, graphicsMutex, producer>>

\* --------------------------------- presenter: RenderWindow / RenderControl
\* Lines 256/269, 380: GetRenderer is entered and takes the state lock.
GetRendererCall ==
  /\ presenter.pc = "idle"
  /\ m_stateMutex = "none"
  /\ m_stateMutex' = "presenter"
  /\ presenter' = [presenter EXCEPT !.pc = "gr_check"]
  /\ UNCHANGED <<m_state, m_bFlush, config, m_speed, frames, m_renderers, m_bufferMutex,
                 graphicsMutex, fullscreenPosts, producer>>

\* Lines 398-400: the resolved settings are put on the chosen renderer.
ApplySettings(r, settings) ==
  [r EXCEPT !.scalingMethod = settings.scalingMethod, !.viewMode = settings.viewMode,
            !.rotation = settings.rotation]

\* CRPProcessInfo::CreateRenderer(bufferPool, renderSettings) followed by
\* renderer->Configure(m_format, m_width, m_height): a new instance, or none.
CreateRenderer(p) ==
  LET same == {r \in m_renderers : r.pool = p}
  IN IF Cardinality(same) < MaxRenderers /\ RendererConfigure(p, m_format)
       THEN [NoRenderer EXCEPT !.id = p + LastPool * Cardinality(same), !.pool = p,
                               !.format = m_format, !.width = m_width, !.height = m_height]
       ELSE NoRenderer

\* The lookup as it would be if it never found a registered renderer.
NoCompatibleRenderers(p, settings) == {}

\* GetRenderer(bufferPool, renderSettings), lines 406-428: the registered renderers
\* of the pool that accept the settings; the first the iteration meets is taken.
CompatibleRenderers(p, settings) ==
  IF ~PoolIsCompatible(p, settings) THEN {}
  ELSE {r \in m_renderers : r.pool = p /\ RendererIsCompatible(r, settings)}

\* Lines 389-394, 406-447: the pools in order.  An incompatible pool is passed
\* over; a registered renderer of the pool that accepts the settings is taken;
\* otherwise one is created and configured.  The result is the pool the loop stops
\* at and the renderer to create there (none when a registered one is taken), or
\* pool 0 when every pool was passed over.
RECURSIVE ResolveRenderer(_, _)
ResolveRenderer(p, settings) ==
  IF p > LastPool THEN [pool |-> 0, created |-> NoRenderer]
  ELSE IF ~PoolIsCompatible(p, settings) THEN ResolveRenderer(p + 1, settings)
  ELSE IF CompatibleRenderers(p, settings) # {} THEN [pool |-> p, created |-> NoRenderer]
  ELSE IF CreateRenderer(p).id # None THEN [pool |-> p, created |-> CreateRenderer(p)]
  ELSE ResolveRenderer(p + 1, settings)

\* Lines 381-447: nothing is returned while UNCONFIGURED; the state lock is
\* released; the effective settings are computed and the renderer is resolved.  A
\* registered renderer gets the settings and goes to RenderInternal; a new one
\* first enters CreateRenderBuffer for its pool.
GetRendererCheck ==
  /\ presenter.pc = "gr_check"
  /\ m_stateMutex' = "none"
  /\ IF m_state = "UNCONFIGURED"
       THEN /\ presenter' = PresenterIdle
            /\ UNCHANGED m_renderers
       ELSE \E settings \in EffectiveSettings :
              LET resolved == ResolveRenderer(1, settings)
              IN IF resolved.pool = 0
                   THEN /\ presenter' = PresenterIdle
                        /\ UNCHANGED m_renderers
                 ELSE IF resolved.created.id # None
                   THEN /\ presenter' = [presenter EXCEPT
                              !.pc = "crb_guard", !.crbPool = resolved.pool,
                              !.crbReturn = "gr_insert",
                              !.created = ApplySettings(resolved.created, settings)]
                        /\ UNCHANGED m_renderers
                 ELSE \E it \in CompatibleRenderers(resolved.pool, settings) :
                        /\ m_renderers' = (m_renderers \ {it})
                                            \cup {ApplySettings(it, settings)}
                        /\ presenter' = [presenter EXCEPT !.pc = "ri_pre",
                                                          !.renderer = it.id]
  /\ UNCHANGED <<m_state, m_bFlush, config, m_speed, frames, m_bufferMutex, graphicsMutex,
                 fullscreenPosts, producer>>

\* Lines 441, 398-403: m_renderers.insert(renderer); the renderer, which carries
\* the effective settings, is returned to RenderWindow / RenderControl.
GetRendererInsert ==
  /\ presenter.pc = "gr_insert"
  /\ m_renderers' = m_renderers \cup {presenter.created}
  /\ presenter' = [presenter EXCEPT !.pc = "ri_pre", !.renderer = presenter.created.id,
                                    !.created = NoRenderer]
  /\ UNCHANGED <<m_state, m_bFlush, config, m_speed, frames, locks, fullscreenPosts,
                 producer>>

\* ------------------------------------------ presenter: CreateRenderBuffer
\* Lines 494-495: the guard, read without a lock.
CreateRenderBufferGuard ==
  /\ presenter.pc = "crb_guard"
  /\ presenter' = [presenter EXCEPT !.pc = IF m_bFlush \/ m_state # "CONFIGURED"
                                             THEN presenter.crbReturn ELSE "crb_lock"]
  /\ UNCHANGED <<m_state, m_bFlush, config, m_speed, frames, m_renderers, locks,
                 fullscreenPosts, producer>>

\* Line 497: CSingleLock lock(m_bufferMutex)
CreateRenderBufferLock ==
  /\ presenter.pc = "crb_lock"
  /\ m_bufferMutex = "none"
  /\ m_bufferMutex' = "presenter"
  /\ presenter' = [presenter EXCEPT !.pc = "crb_body"]
  /\ UNCHANGED <<m_state, m_bFlush, config, m_speed, frames, m_renderers, m_stateMutex,
                 graphicsMutex, fullscreenPosts, producer>>

\* HasRenderBuffer (lines 450-466; the lock is recursive)
HasRenderBuffer(bufferPool) ==
  \E i \in 1 .. Len(m_renderBuffers) : BufPool(m_renderBuffers[i]) = bufferPool

\* Lines 499-510, 515-522: with no buffer of the pool in the set and a cached frame
\* flagged, the frame is moved out; if it is not empty a buffer is asked of the
\* pool.  With a buffer the lock is left (CSingleExit) for the copy; without one
\* the frame is moved back.  The lock is released on return.
CreateRenderBufferBody ==
  /\ presenter.pc = "crb_body"
  /\ m_bufferMutex' = "none"
  /\ IF ~HasRenderBuffer(presenter.crbPool) /\ m_bHasCachedFrame /\ m_cachedFrame # <<>>
       THEN \E renderBuffer \in GetBuffer(buffers, presenter.crbPool) :
              IF renderBuffer # None
                THEN /\ buffers' = Handout(buffers, renderBuffer)
                     /\ m_cachedFrame' = <<>>
                     /\ presenter' = [presenter EXCEPT !.pc = "crb_copy",
                                                       !.cachedFrame = m_cachedFrame,
                                                       !.crbBuffer = renderBuffer]
                ELSE /\ presenter' = [presenter EXCEPT !.pc = presenter.crbReturn]
                     /\ UNCHANGED <<buffers, m_cachedFrame>>
       ELSE /\ presenter' = [presenter EXCEPT !.pc = presenter.crbReturn]
            /\ UNCHANGED <<buffers, m_cachedFrame>>
  /\ UNCHANGED <<m_state, m_bFlush, config, m_speed, m_renderBuffers, m_bHasCachedFrame,
                 pausedFrame, m_renderers, m_stateMutex, graphicsMutex, fullscreenPosts,
                 producer>>

\* Lines 511-512: CopyFrame of the cached frame with the current m_format, m_width
\* and m_height, outside the lock; then the lock is taken again.
CreateRenderBufferCopy ==
  /\ presenter.pc = "crb_copy"
  /\ m_bufferMutex = "none"
  /\ m_bufferMutex' = "presenter"
  /\ \E content \in CopyFrame(presenter.crbPool, m_format, presenter.cachedFrame,
                              Len(presenter.cachedFrame), m_width, m_height) :
       buffers' = [buffers EXCEPT ![presenter.crbBuffer].content = content]
  /\ presenter' = [presenter EXCEPT !.pc = "crb_append"]
  /\ UNCHANGED <<m_state, m_bFlush, config, m_speed, m_renderBuffers, m_cachedFrame,
                 m_bHasCachedFrame, pausedFrame, m_renderers, m_stateMutex, graphicsMutex,
                 fullscreenPosts, producer>>

\* Lines 513-515: the buffer is appended to the set, the cached frame is moved
\* back, and the lock is released.
CreateRenderBufferAppend ==
  /\ presenter.pc = "crb_append"
  /\ m_renderBuffers' = Append(m_renderBuffers, presenter.crbBuffer)
  /\ m_cachedFrame' = presenter.cachedFrame
  /\ m_bufferMutex' = "none"
  /\ presenter' = [presenter EXCEPT !.pc = presenter.crbReturn, !.cachedFrame = <<>>,
                                    !.crbBuffer = None]
  /\ UNCHANGED <<m_state, m_bFlush, config, m_speed, m_bHasCachedFrame, buffers,
                 pausedFrame, m_renderers, m_stateMutex, graphicsMutex, fullscreenPosts,
                 producer>>

\* ---------------------------------------------- presenter: RenderInternal
\* Lines 343-345: PreRender, then CSingleExit exitLock(GraphicsMutex()): the
\* graphics lock the render thread holds is left until RenderInternal returns.
RenderInternalPre ==
  /\ presenter.pc = "ri_pre"
  /\ graphicsMutex' = FALSE
  /\ presenter' = [presenter EXCEPT !.pc = "grb_guard"]
  /\ UNCHANGED <<m_state, m_bFlush, config, m_speed, frames, m_renderers, m_stateMutex,
                 m_bufferMutex, fullscreenPosts, producer>>

\* renderer->GetBufferPool() of the renderer being dispatched
RendererPool == (CHOOSE r \in m_renderers : r.id = presenter.renderer).pool

\* Lines 350-356: without a buffer, CreateRenderBuffer is tried once and
\* GetRenderBuffer is asked again; then comes the upload.
AfterGetRenderBuffer(renderBuffer) ==
  IF renderBuffer = None /\ ~presenter.retry
    THEN [presenter EXCEPT !.pc = "crb_guard", !.crbPool = RendererPool,
                           !.crbReturn = "grb_guard", !.retry = TRUE]
    ELSE [presenter EXCEPT !.pc = "ri_upload", !.renderBuffer = renderBuffer,
                           !.crbPool = 0, !.crbReturn = "idle"]

\* Lines 470-471: the guard of GetRenderBuffer, read without a lock.
GetRenderBufferGuard ==
  /\ presenter.pc = "grb_guard"
  /\ presenter' = IF m_bFlush \/ m_state # "CONFIGURED"
                    THEN AfterGetRenderBuffer(None)
                    ELSE [presenter EXCEPT !.pc = "grb_lock"]
  /\ UNCHANGED <<m_state, m_bFlush, config, m_speed, frames, m_renderers, locks,
                 fullscreenPosts, producer>>

\* Line 475: CSingleLock lock(m_bufferMutex)
GetRenderBufferLock ==
  /\ presenter.pc = "grb_lock"
  /\ m_bufferMutex = "none"
  /\ m_bufferMutex' = "presenter"
  /\ presenter' = [presenter EXCEPT !.pc = "grb_find"]
  /\ UNCHANGED <<m_state, m_bFlush, config, m_speed, frames, m_renderers, m_stateMutex,
                 graphicsMutex, fullscreenPosts, producer>>

\* GetRenderBuffer as it would be if it returned the buffer without Acquire().
GetRenderBufferFindWithoutAcquire ==
  /\ presenter.pc = "grb_find"
  /\ LET hits == {i \in 1 .. Len(m_renderBuffers) : BufPool(m_renderBuffers[i]) = RendererPool}
     IN IF hits = {}
          THEN presenter' = AfterGetRenderBuffer(None)
          ELSE LET it == CHOOSE i \in hits : \A j \in hits : i <= j
               IN presenter' = AfterGetRenderBuffer(m_renderBuffers[it])
  /\ m_bufferMutex' = "none"
  /\ UNCHANGED <<m_state, m_bFlush, config, m_speed, frames, m_renderers, m_stateMutex,
                 graphicsMutex, fullscreenPosts, producer>>

\* Lines 477-489: the first buffer of the pool in the set is acquired and returned.
GetRenderBufferFind ==
  /\ presenter.pc = "grb_find"
  /\ LET hits == {i \in 1 .. Len(m_renderBuffers) : BufPool(m_renderBuffers[i]) = RendererPool}
     IN IF hits = {}
          THEN /\ presenter' = AfterGetRenderBuffer(None)
               /\ UNCHANGED buffers
          ELSE LET it == CHOOSE i \in hits : \A j \in hits : i <= j
               IN /\ buffers' = Acquire(buffers, m_renderBuffers[it])
                  /\ presenter' = AfterGetRenderBuffer(m_renderBuffers[it])
  /\ m_bufferMutex' = "none"
  /\ UNCHANGED <<m_state, m_bFlush, config, m_speed, m_renderBuffers, m_cachedFrame,
                 m_bHasCachedFrame, pausedFrame, m_renderers, m_stateMutex, graphicsMutex,
                 fullscreenPosts, producer>>

\* RenderInternal as it would be if it left out SetLoaded(true) after the upload.
RenderInternalUploadWithoutSetLoaded ==
  /\ presenter.pc = "ri_upload"
  /\ LET renderBuffer == presenter.renderBuffer
     IN IF renderBuffer = None
          THEN /\ presenter' = PresenterIdle
               /\ graphicsMutex' = TRUE
               /\ UNCHANGED buffers
        ELSE IF buffers[renderBuffer].loaded
          THEN /\ presenter' = [presenter EXCEPT !.pc = "ri_bind", !.bUploaded = TRUE]
               /\ UNCHANGED <<buffers, graphicsMutex>>
        ELSE \E uploadTexture \in BOOLEAN :
               /\ buffers' = [buffers EXCEPT ![renderBuffer].uploads = @ + 1]
               /\ presenter' = [presenter EXCEPT !.pc = "ri_bind",
                                                 !.bUploaded = uploadTexture]
               /\ UNCHANGED graphicsMutex
  /\ UNCHANGED <<m_state, m_bFlush, config, m_speed, m_renderBuffers, m_cachedFrame,
                 m_bHasCachedFrame, pausedFrame, m_renderers, m_stateMutex, m_bufferMutex,
                 fullscreenPosts, producer>>

\* Lines 356-364, 372: a buffer that is not loaded is uploaded and, whatever the
\* result, marked loaded.  Without a buffer only RenderFrame runs, and
\* RenderInternal returns with the graphics lock taken back.
RenderInternalUpload ==
  /\ presenter.pc = "ri_upload"
  /\ LET renderBuffer == presenter.renderBuffer
     IN IF renderBuffer = None
          THEN /\ presenter' = PresenterIdle
               /\ graphicsMutex' = TRUE
               /\ UNCHANGED buffers
        ELSE IF buffers[renderBuffer].loaded
          THEN /\ presenter' = [presenter EXCEPT !.pc = "ri_bind", !.bUploaded = TRUE]
               /\ UNCHANGED <<buffers, graphicsMutex>>
        ELSE \E uploadTexture \in BOOLEAN :
               /\ buffers' = [buffers EXCEPT ![renderBuffer].loaded = TRUE,
                                             ![renderBuffer].uploads = @ + 1]
               /\ presenter' = [presenter EXCEPT !.pc = "ri_bind",
                                                 !.bUploaded = uploadTexture]
               /\ UNCHANGED graphicsMutex
  /\ UNCHANGED <<m_state, m_bFlush, config, m_speed, m_renderBuffers, m_cachedFrame,
                 m_bHasCachedFrame, pausedFrame, m_renderers, m_stateMutex, m_bufferMutex,
                 fullscreenPosts, producer>>

\* Lines 366-373: SetBuffer when uploaded, the reference is released, RenderFrame
\* runs, and RenderInternal returns with the graphics lock taken back.
RenderInternalBind ==
  /\ presenter.pc = "ri_bind"
  /\ buffers' = Release(buffers, presenter.renderBuffer)
  /\ graphicsMutex' = TRUE
  /\ presenter' = PresenterIdle
  /\ UNCHANGED <<m_state, m_bFlush, config, m_speed, m_renderBuffers, m_cachedFrame,
                 m_bHasCachedFrame, pausedFrame, m_renderers, m_stateMutex, m_bufferMutex,
                 fullscreenPosts, producer>>

\* ------------------------------------------------------------- lifecycle
\* Deinitialize (lines 63-81), called with both threads out of the manager: the
\* buffers are released, the registry is emptied, the state is UNCONFIGURED.  The
\* flush flag, the cached frame and the configuration are left as they are.
Deinitialize ==
  /\ producer.pc = "idle"
  /\ presenter.pc = "idle"
  /\ buffers' = ReleaseAll(buffers, m_renderBuffers)
  /\ m_renderBuffers' = <<>>
  /\ m_renderers' = {}
  /\ m_state' = "UNCONFIGURED"
  /\ fullscreenPosts' = 0
  /\ UNCHANGED <<m_bFlush, config, m_speed, m_cachedFrame, m_bHasCachedFrame,
                 pausedFrame, locks, producer, presenter>>

\* Flush() called from the presentation side (it only sets the flag).
FlushFromPresenter ==
  /\ presenter.pc = "idle"
  /\ m_bFlush' = TRUE
  /\ UNCHANGED <<m_state, config, m_speed, frames, m_renderers, locks, fullscreenPosts,
                 producer, presenter>>

\* ---------------------------------------------------------- specification
Next ==
  \/ ConfigureCall \/ ConfigureLock \/ ConfigureReconfiguring
  \/ Flush \/ SetSpeed
  \/ AddFrameCall \/ AddFrameSwap \/ AddFrameMemcpy \/ AddFrameStore
  \/ FrameMoveCall \/ CheckFlushLock \/ CheckFlushClear \/ CheckFlushDone
  \/ FrameMoveLock \/ FrameMoveState
  \/ GetRendererCall \/ GetRendererCheck \/ GetRendererInsert
  \/ CreateRenderBufferGuard \/ CreateRenderBufferLock \/ CreateRenderBufferBody
  \/ CreateRenderBufferCopy \/ CreateRenderBufferAppend
  \/ RenderInternalPre \/ GetRenderBufferGuard \/ GetRenderBufferLock
  \/ GetRenderBufferFind \/ RenderInternalUpload \/ RenderInternalBind
  \/ Deinitialize

Spec == Init /\ [][Next]_vars

\* The same program with Flush() also called from the presentation side.
NextAnyFlush == Next \/ FlushFromPresenter

SpecAnyFlush == Init /\ [][NextAnyFlush]_vars

\* The same program with every call run to its return before the next one starts:
\* a thread takes a step only while the other one is outside the manager.
ProducerAlone == presenter.pc = "idle"
PresenterAlone == producer.pc = "idle"

NextSequential ==
  \/ (ProducerAlone /\ ConfigureCall)
  \/ (ProducerAlone /\ ConfigureLock)
  \/ (ProducerAlone /\ ConfigureReconfiguring)
  \/ (ProducerAlone /\ Flush)
  \/ (ProducerAlone /\ SetSpeed)
  \/ (ProducerAlone /\ AddFrameCall)
  \/ (ProducerAlone /\ AddFrameSwap)
  \/ (ProducerAlone /\ AddFrameMemcpy)
  \/ (ProducerAlone /\ AddFrameStore)
  \/ (PresenterAlone /\ FrameMoveCall)
  \/ (PresenterAlone /\ CheckFlushLock)
  \/ (PresenterAlone /\ CheckFlushClear)
  \/ (PresenterAlone /\ CheckFlushDone)
  \/ (PresenterAlone /\ FrameMoveLock)
  \/ (PresenterAlone /\ FrameMoveState)
  \/ (PresenterAlone /\ GetRendererCall)
  \/ (PresenterAlone /\ GetRendererCheck)
  \/ (PresenterAlone /\ GetRendererInsert)
  \/ (PresenterAlone /\ CreateRenderBufferGuard)
  \/ (PresenterAlone /\ CreateRenderBufferLock)
  \/ (PresenterAlone /\ CreateRenderBufferBody)
  \/ (PresenterAlone /\ CreateRenderBufferCopy)
  \/ (PresenterAlone /\ CreateRenderBufferAppend)
  \/ (PresenterAlone /\ RenderInternalPre)
  \/ (PresenterAlone /\ GetRenderBufferGuard)
  \/ (PresenterAlone /\ GetRenderBufferLock)
  \/ (PresenterAlone /\ GetRenderBufferFind)
  \/ (PresenterAlone /\ RenderInternalUpload)
  \/ (PresenterAlone /\ RenderInternalBind)
  \/ Deinitialize

SpecSequential == Init /\ [][NextSequential]_vars

\* The same, with the history of the paused frames recorded.
InitHistory == Constructed /\ pausedFrame = NoPausedFrame

SpecHistory == InitHistory /\ [][NextSequential]_vars

\* The presentation loop with FrameMove alone in every tick, against the whole
\* producer: render dispatch writes neither m_state nor m_bFlush.
FrameMove ==
  \/ FrameMoveCall \/ CheckFlushLock \/ CheckFlushClear \/ CheckFlushDone
  \/ FrameMoveLock \/ FrameMoveState

\* The steps a producer call takes after it has been entered, up to its return.
ProducerReturns ==
  \/ ConfigureLock \/ ConfigureReconfiguring
  \/ AddFrameSwap \/ AddFrameMemcpy \/ AddFrameStore

NextFrameMove ==
  \/ ConfigureCall \/ ConfigureLock \/ ConfigureReconfiguring
  \/ Flush \/ SetSpeed
  \/ AddFrameCall \/ AddFrameSwap \/ AddFrameMemcpy \/ AddFrameStore
  \/ FrameMoveCall \/ CheckFlushLock \/ CheckFlushClear \/ CheckFlushDone
  \/ FrameMoveLock \/ FrameMoveState
  \/ Deinitialize

\* The presentation loop keeps calling FrameMove and a thread that can take the
\* next step of the call it is in takes it; the producer need never call again.
SpecFrameMove ==
  Init /\ [][NextFrameMove]_vars /\ WF_vars(FrameMove) /\ WF_vars(ProducerReturns)

\* ------------------------------------------------------------------ claims
\* A step taken inside AddFrame after its checks, and a step inside
\* CreateRenderBuffer after its guard.
AddFrameStep == producer.pc \in {"add_swap", "add_memcpy", "add_store"} /\ producer' # producer
CreateRenderBufferStep ==
  /\ presenter.pc \in {"crb_lock", "crb_body", "crb_copy", "crb_append"}
  /\ presenter' # presenter

\* C1: a step of AddFrame or of CreateRenderBuffer changes the render buffer set or
\* the cached frame only while the state is CONFIGURED and no flush is pending.
C1_SideEffectsOnlyWhenConfigured ==
  [][(AddFrameStep \/ CreateRenderBufferStep)
       /\ <<m_renderBuffers, m_cachedFrame>>' # <<m_renderBuffers, m_cachedFrame>>
     => m_state = "CONFIGURED" /\ ~m_bFlush]_vars

\* C2: the render buffer set never holds two buffers of one pool, and every buffer
\* in it carries at least one reference.
C2_OneBufferPerPool ==
  /\ \A i, j \in 1 .. Len(m_renderBuffers) :
       i # j => BufPool(m_renderBuffers[i]) # BufPool(m_renderBuffers[j])
  /\ \A i \in 1 .. Len(m_renderBuffers) : buffers[m_renderBuffers[i]].refs >= 1

\* C3: when an AddFrame that got past its checks returns while the speed is 0, the
\* cached frame is the frame it was given, byte for byte and of the same length.
C3_CachedFrameIsLatest ==
  [][AddFrameStep /\ producer'.pc = "idle" /\ m_speed = 0
     => m_cachedFrame' = Data(producer.data, producer.size)]_vars

\* C4: at the step in which CheckFlush clears m_bFlush, the render buffer set and
\* the cached frame are empty and m_bHasCachedFrame is false.
C4_FlushLeavesNothing ==
  [][presenter.pc = "cf_flag" /\ m_bFlush /\ ~m_bFlush'
     => m_renderBuffers' = <<>> /\ m_cachedFrame' = <<>> /\ ~m_bHasCachedFrame']_vars

\* C5: until Deinitialize, m_state moves only along UNCONFIGURED -> CONFIGURING,
\* CONFIGURING -> CONFIGURED, CONFIGURED -> RECONFIGURING and RECONFIGURING ->
\* CONFIGURED, and only a step of FrameMove makes it CONFIGURED.
StateEdges ==
  {<<"UNCONFIGURED", "CONFIGURING">>, <<"CONFIGURING", "CONFIGURED">>,
   <<"CONFIGURED", "RECONFIGURING">>, <<"RECONFIGURING", "CONFIGURED">>}
C5_StateEdges ==
  [][m_state' # m_state /\ m_state' # "UNCONFIGURED"
     => /\ <<m_state, m_state'>> \in StateEdges
        /\ (m_state' = "CONFIGURED" => presenter.pc = "fm_state" /\ presenter' # presenter)]_vars

\* C6: an AddFrame whose width or height differs from the configured one writes the
\* incoming dimensions, goes through Configure once -- the flag is set under the
\* state lock, then the state becomes RECONFIGURING -- and at no step touches a pool
\* buffer, the render buffer set or the cached frame.
C6_MismatchReconfigures ==
  [][/\ (producer.pc = "idle" /\ producer'.fromAddFrame
           => /\ m_state = "CONFIGURED" /\ ~m_bFlush
              /\ <<m_width', m_height'>> = <<producer'.width, producer'.height>>
              /\ <<m_width', m_height'>> # <<m_width, m_height>>
              /\ producer'.pc = "cfg_lock"
              /\ UNCHANGED frames)
     /\ (producer.fromAddFrame /\ producer' # producer
           => /\ UNCHANGED frames
              /\ <<m_width', m_height'>> = <<producer.width, producer.height>>
              /\ (producer.pc = "cfg_lock" => m_bFlush' /\ producer'.pc = "cfg_reconf")
              /\ (producer.pc = "cfg_reconf"
                    => m_state' = "RECONFIGURING" /\ producer' = ProducerIdle))]_vars

\* The reconfiguration from AddFrame is under way, with buffers in the set.
C6_Witness ==
  /\ producer.pc = "cfg_reconf" /\ producer.fromAddFrame
  /\ m_bFlush /\ m_renderBuffers # <<>>

\* The renderer GetRenderer has just returned, and the settings it was asked for.
ReturnedRenderer == CHOOSE r \in m_renderers : r.id = presenter.renderer
SettingsOf(r) ==
  [scalingMethod |-> r.scalingMethod, viewMode |-> r.viewMode, rotation |-> r.rotation]

C8_HandedBufferStaysReferenced ==
  presenter.pc \in {"ri_upload", "ri_bind"} /\ presenter.renderBuffer # None
    => buffers[presenter.renderBuffer].refs >= 1

\* RenderInternal is about to bind a buffer that has left the render buffer set.
C8_Witness ==
  /\ presenter.pc = "ri_bind"
  /\ presenter.renderBuffer # None
  /\ \A i \in 1 .. Len(m_renderBuffers) : m_renderBuffers[i] # presenter.renderBuffer

\* C9: neither thread owns m_stateMutex and m_bufferMutex at once.
C9_LocksNeverNested ==
  \A thread \in {"producer", "presenter"} :
    ~(m_stateMutex = thread /\ m_bufferMutex = thread)

\* Both locks are owned at the same moment, by different threads.
C9_Witness == m_stateMutex = "producer" /\ m_bufferMutex = "presenter"

\* The buffers of pool p in a list.
OfPool(list, p) == {i \in 1 .. Len(list) : BufPool(list[i]) = p}
\* The step in which AddFrame stores the new list.
AddFrameSwapStep == producer.pc = "add_swap" /\ producer' # producer

\* C10 as stated: with no other operation interleaved, after AddFrame stores its
\* list the set has one buffer for every pool that was visible and supplied one and
\* none for any other pool, every buffer holds the bytes of the frame, and every
\* buffer of the previous set has lost exactly one reference.
C10_SetIsExactCopy ==
  [][AddFrameSwapStep
     => /\ \A p \in Pools :
             Cardinality(OfPool(m_renderBuffers', p))
               = IF producer.polled[p] = "supplied" THEN 1 ELSE 0
        /\ \A i \in 1 .. Len(m_renderBuffers') :
             buffers'[m_renderBuffers'[i]].content.bytes
               = Data(producer.data, producer.size)
        /\ \A i \in 1 .. Len(m_renderBuffers) :
             LET b == m_renderBuffers[i]
             IN buffers[b].refs >= 1 /\ buffers'[b].refs = buffers[b].refs - 1]_vars

\* C10 amended: the same, except that a buffer whose memory could not be mapped or
\* converted is in the set with the content it had.
C10_SetIsCopyUnlessCopyFailed ==
  [][AddFrameSwapStep
     => /\ \A p \in Pools :
             Cardinality(OfPool(m_renderBuffers', p))
               = IF producer.polled[p] = "supplied" THEN 1 ELSE 0
        /\ \A i \in 1 .. Len(m_renderBuffers') :
             LET b == m_renderBuffers'[i]
             IN \/ buffers'[b].content.bytes = Data(producer.data, producer.size)
                \/ CopyCanFail(BufPool(b)) /\ buffers'[b].content = Stale
        /\ \A i \in 1 .. Len(m_renderBuffers) :
             LET b == m_renderBuffers[i]
             IN buffers[b].refs >= 1 /\ buffers'[b].refs = buffers[b].refs - 1]_vars

\* AddFrame has stored a list with the first pool's buffer only, the second pool
\* having had none to give, and no other buffer carries a reference any more.
C10_Witness ==
  /\ producer.pc = "add_memcpy"
  /\ producer.polled[1] = "supplied" /\ producer.polled[2] = "exhausted"
  /\ m_renderBuffers = producer.renderBuffers /\ Len(m_renderBuffers) = 1
  /\ Cardinality({b \in BufferIds : buffers[b].refs = 0}) = Cardinality(BufferIds) - 1

\* The step in which CreateRenderBuffer appends the buffer it made from the cached
\* frame and returns.
CreateRenderBufferAppendStep == presenter.pc = "crb_append" /\ presenter' # presenter

\* C11: when the last frame taken in came while the speed was 0 and
\* CreateRenderBuffer, with state CONFIGURED and no flush pending, makes a buffer
\* for a pool that has none in the set, the set then has that one buffer of the pool
\* and the buffer holds the bytes of that frame, unless the copy itself failed.
C11_SeededBufferHoldsFrame ==
  [][/\ CreateRenderBufferAppendStep
     /\ m_state = "CONFIGURED" /\ ~m_bFlush
     /\ pausedFrame.bytes # <<>> /\ ~pausedFrame.superseded
     => LET b == presenter.crbBuffer
        IN /\ OfPool(m_renderBuffers', presenter.crbPool) = {Len(m_renderBuffers')}
           /\ m_renderBuffers'[Len(m_renderBuffers')] = b
           /\ \/ buffers'[b].content.bytes = pausedFrame.bytes
              \/ CopyCanFail(BufPool(b)) /\ buffers'[b].content = Stale]_vars

\* The step in which CreateRenderBuffer runs CopyFrame on the cached frame.
CreateRenderBufferCopyStep == presenter.pc = "crb_copy" /\ presenter' # presenter

\* C12: CreateRenderBuffer copies the cached frame with the width and height that
\* the frame in it was delivered with, which are the configured ones.
C12_CachedFrameKeepsDimensions ==
  [][CreateRenderBufferCopyStep
     => /\ pausedFrame.bytes # <<>>
        /\ <<m_width, m_height>> = <<pausedFrame.width, pausedFrame.height>>]_vars

\* C13: no buffer is uploaded more than once between the moment a pool hands it out
\* and the moment it returns to the pool; an upload is made only on a buffer that
\* is not loaded, and the buffer is loaded right after it.
C13_UploadAtMostOnce ==
  [][\A b \in BufferIds :
       /\ buffers'[b].uploads <= 1
       /\ (buffers'[b].uploads > buffers[b].uploads
             => /\ presenter.pc = "ri_upload" /\ presenter.renderBuffer = b
                /\ ~buffers[b].loaded /\ buffers'[b].loaded)]_vars

\* A buffer that has been uploaded once is dispatched again.
C13_Witness ==
  /\ presenter.pc = "ri_upload"
  /\ presenter.renderBuffer # None
  /\ buffers[presenter.renderBuffer].loaded
  /\ buffers[presenter.renderBuffer].uploads = 1

\* The step in which RenderInternal uploads the buffer it got, and the upload fails.
UploadFailsStep ==
  /\ presenter.pc = "ri_upload" /\ presenter'.pc = "ri_bind"
  /\ ~buffers[presenter.renderBuffer].loaded
  /\ ~presenter'.bUploaded

\* C14: a buffer whose upload failed is not passed to SetBuffer in that dispatch and
\* is left not loaded, so that the next dispatch that gets it uploads it again
\* before binding it.
C14_FailedUploadIsRetried ==
  [][UploadFailsStep => ~buffers'[presenter.renderBuffer].loaded]_vars

\* The step in which CheckFlush executes the flush on the buffers.
CheckFlushClearStep == presenter.pc = "cf_clear" /\ presenter' # presenter

\* C15: the cached frame gets content only in a step of AddFrame taken while the
\* speed is 0; it is empty and not flagged after the flush is executed, and after
\* CreateRenderBuffer has put a buffer made from it into the set.
C15_CacheClearedOnceUsed ==
  [][/\ (m_cachedFrame = <<>> /\ m_cachedFrame' # <<>> => AddFrameStep /\ m_speed = 0)
     /\ (CheckFlushClearStep => m_cachedFrame' = <<>> /\ ~m_bHasCachedFrame')
     /\ (CreateRenderBufferAppendStep => m_cachedFrame' = <<>> /\ ~m_bHasCachedFrame')]_vars

\* The presenter is inside RenderInternal, past PreRender: getting the buffer,
\* creating one, uploading, binding or drawing.
InRenderInternal ==
  \/ presenter.pc \in {"grb_guard", "grb_lock", "grb_find", "ri_upload", "ri_bind"}
  \/ /\ presenter.pc \in {"crb_guard", "crb_lock", "crb_body", "crb_copy", "crb_append"}
     /\ presenter.crbReturn = "grb_guard"

\* C16: from just after PreRender to the return of RenderFrame the dispatching
\* thread holds the graphics-context lock.
C16_GraphicsLockHeld == InRenderInternal => graphicsMutex

\* Renderer r was last configured with the manager's current format and dimensions.
ConfiguredAsManager(r) ==
  r.format = m_format /\ r.width = m_width /\ r.height = m_height

\* C17: in state CONFIGURED every registered renderer was last configured with the
\* manager's current format and dimensions, at every moment of every interleaving
\* of Configure with FrameMove.
C17_RenderersFollowConfigure ==
  m_state = "CONFIGURED" => \A r \in m_renderers : ConfiguredAsManager(r)

\* C18: whenever the state is CONFIGURED the switch-to-fullscreen message has been
\* posted exactly once since the state was UNCONFIGURED, and only FrameMove posts it.
C18_FullscreenPostedOnce ==
  [][/\ (m_state' = "CONFIGURED" => fullscreenPosts' = 1)
     /\ (fullscreenPosts' > fullscreenPosts
           => presenter.pc = "fm_state" /\ presenter' # presenter)]_vars

\* C19: while the speed is not 0 and AddFrame has taken in a frame at such a speed
\* since the cached frame was filled, CreateRenderBuffer puts no buffer made from
\* the cached frame into the set.
C19_NoSeedFromSupersededFrame ==
  [][CreateRenderBufferAppendStep => ~(m_speed # 0 /\ pausedFrame.superseded)]_vars

\* A step of Configure (called from the API or by AddFrame for a frame of other
\* dimensions), a Flush request, or Deinitialize.
Disturbance ==
  \/ producer'.pc \in {"cfg_lock", "cfg_reconf"} /\ producer' # producer
  \/ producer.pc \in {"cfg_lock", "cfg_reconf"} /\ producer' # producer
  \/ ~m_bFlush /\ m_bFlush'
  \/ Deinitialize
\* The pipeline is configured and no flush is pending.
Settled == m_state = "CONFIGURED" /\ ~m_bFlush

\* C20: with FrameMove called again and again, once the Configure, Flush and
\* Deinitialize calls and the frames of other dimensions have stopped with the
\* pipeline configured at least once, the state becomes CONFIGURED with no flush
\* pending and stays so; only such a call ends that; and a FrameMove entered with
\* a flush pending executes it before it reads the state.
C20_FrameMoveSettles ==
  /\ (<>[][~Disturbance]_vars /\ <>[](m_state # "UNCONFIGURED")) => <>[]Settled
  /\ [][Settled /\ ~Settled' => Disturbance]_vars
  /\ [][/\ (presenter.pc = "idle" /\ presenter'.pc = "fm_lock" => ~m_bFlush)
        /\ (presenter.pc = "idle" /\ m_bFlush /\ presenter' # presenter
              => presenter'.pc = "cf_lock")
        /\ (presenter.pc = "cf_lock" /\ presenter' # presenter
              => presenter'.pc = "cf_clear")
        /\ (presenter'.pc = "fm_lock" /\ presenter.pc # "idle" /\ presenter' # presenter
              => presenter.pc = "cf_flag" /\ ~m_bFlush')]_vars

\* FrameMove has executed the flush of a second Configure and committed it.
C20_Witness ==
  /\ Settled
  /\ presenter.pc = "idle" /\ producer.pc = "idle"
  /\ fullscreenPosts = 0
====
